---- MODULE Spec2Model ----
(***************************************************************************)
(* Model of the verify engine of claw-strk-x402-server                     *)
(* (src/src/facilitator/starknet-verifier.ts, class StarknetVerifier).     *)
(*                                                                         *)
(* One behaviour is one call of verifyExactPayment(payload, requirements)  *)
(* on a verifier constructed with some config.  The payload, the           *)
(* requirements and the config are drawn in Init; every chain query is     *)
(* answered by a nondeterministic choice among an error and the results    *)
(* the chain can give.  Strings are sequences of one-character strings, so *)
(* that toLowerCase, startsWith, the hex test, BigInt(...) and includes    *)
(* are computed as the code computes them.                                 *)
(***************************************************************************)
EXTENDS Integers, Sequences, FiniteSets, TLC

(***************************************************************************)
(* Bounds of the model.                                                    *)
(***************************************************************************)
\* requirements.maxAmountRequired; payload amounts range over -1..MaxAmt+1
MaxAmt == 1
\* requirements.maxTimeoutSeconds
MaxTimeout == 2
\* the clock reads 1..MaxNow; deadlines range over 0..MaxNow+MaxTimeout+1
MaxNow == 1

(***************************************************************************)
(* Program constants.                                                      *)
(***************************************************************************)
\* starknet-verifier.ts:364  cleanAddress.length > 64
MaxHexLen == 64

\* starknet-verifier.ts:199-200
SN_MAIN == "0x534e5f4d41494e"
SN_SEPOLIA == "0x534e5f5345504f4c4941"

(***************************************************************************)
(* Strings.                                                                *)
(***************************************************************************)
\* an absent (undefined) string field
UNDEFINED == <<"undefined">>

DecDigits == <<"0", "1", "2", "3", "4", "5", "6", "7", "8", "9">>
HexLower == <<"a", "b", "c", "d", "e", "f">>
HexUpper == <<"A", "B", "C", "D", "E", "F">>

Range(s) == {s[i] : i \in 1..Len(s)}

IndexOf(c, s) == CHOOSE i \in 1..Len(s) : s[i] = c

\* String.prototype.toLowerCase on the characters the model uses
LowerChar(c) ==
    IF c \in Range(HexUpper) THEN HexLower[IndexOf(c, HexUpper)]
    ELSE IF c = "X" THEN "x"
    ELSE IF c = "M" THEN "m"
    ELSE c

toLowerCase(s) == [i \in 1..Len(s) |-> LowerChar(s[i])]

startsWith(s, p) == Len(s) >= Len(p) /\ SubSeq(s, 1, Len(p)) = p

includes(s, sub) ==
    \E i \in 1..(Len(s) - Len(sub) + 1) : SubSeq(s, i, i + Len(sub) - 1) = sub

\* the test /^[0-9a-fA-F]+$/ of starknet-verifier.ts:359
IsHexString(s) ==
    /\ Len(s) >= 1
    /\ \A i \in 1..Len(s) :
          s[i] \in Range(DecDigits) \cup Range(HexLower) \cup Range(HexUpper)

\* starknet-verifier.ts:348-369
isValidStarknetAddress(address) ==
    IF address = UNDEFINED \/ address = <<>> THEN FALSE
    ELSE LET cleanAddress ==
                 IF startsWith(address, <<"0", "x">>)
                 THEN SubSeq(address, 3, Len(address))
                 ELSE address
         IN  IF ~IsHexString(cleanAddress) THEN FALSE
             ELSE IF Len(cleanAddress) > MaxHexLen THEN FALSE
             ELSE TRUE

(***************************************************************************)
(* BigInt(string) and `${bigint}`.                                         *)
(***************************************************************************)
RECURSIVE DecValue(_)
DecValue(s) ==
    IF s = <<>> THEN 0
    ELSE 10 * DecValue(SubSeq(s, 1, Len(s) - 1)) + (IndexOf(s[Len(s)], DecDigits) - 1)

IsDecString(s) == Len(s) >= 1 /\ \A i \in 1..Len(s) : s[i] \in Range(DecDigits)

\* BigInt(s) for a string s: the empty string is 0n, an optionally signed
\* decimal numeral is its value, anything else is a SyntaxError (ok = FALSE);
\* BigInt(undefined) is a TypeError.
BigInt(s) ==
    IF s = UNDEFINED THEN [ok |-> FALSE, val |-> 0]
    ELSE IF s = <<>> THEN [ok |-> TRUE, val |-> 0]
    ELSE IF IsDecString(s) THEN [ok |-> TRUE, val |-> DecValue(s)]
    ELSE IF s[1] \in {"-", "+"} /\ IsDecString(Tail(s))
         THEN [ok |-> TRUE,
               val |-> IF s[1] = "-" THEN 0 - DecValue(Tail(s)) ELSE DecValue(Tail(s))]
    ELSE [ok |-> FALSE, val |-> 0]

RECURSIVE NatToString(_)
NatToString(n) ==
    IF n < 10 THEN <<DecDigits[n + 1]>>
    ELSE NatToString(n \div 10) \o <<DecDigits[(n % 10) + 1]>>

\* BigInt.prototype.toString(), as the template literal of line 80 applies it
BigIntToString(n) == IF n < 0 THEN <<"-">> \o NatToString(0 - n) ELSE NatToString(n)

\* the message of the SyntaxError BigInt(s) throws
BigIntErrorMessage(s) == <<"Cannot convert ">> \o s \o <<" to a BigInt">>

(***************************************************************************)
(* Felts, hashes and signatures.  A hash is modelled by the record of what *)
(* was hashed (no collisions); a signature (r, s) by the key that made it  *)
(* and the hash it was made over.                                          *)
(***************************************************************************)
HexDigitValue(c) ==
    IF c \in Range(DecDigits) THEN IndexOf(c, DecDigits) - 1
    ELSE 9 + IndexOf(LowerChar(c), HexLower)

RECURSIVE HexValue(_)
HexValue(s) ==
    IF s = <<>> THEN 0
    ELSE 16 * HexValue(SubSeq(s, 1, Len(s) - 1)) + HexDigitValue(s[Len(s)])

\* the felt an address string encodes to (-1: not encodable)
AddressFelt(address) ==
    IF ~isValidStarknetAddress(address) THEN 0 - 1
    ELSE HexValue(IF startsWith(address, <<"0", "x">>)
                  THEN SubSeq(address, 3, Len(address)) ELSE address)

\* shortString.encodeShortString: the character codes, base 256
RECURSIVE ShortStringFelt(_)
ShortStringFelt(s) ==
    IF s = <<>> THEN 0
    ELSE 256 * ShortStringFelt(SubSeq(s, 1, Len(s) - 1))
         + (IF s[Len(s)] = "x" THEN 120 ELSE 45)

\* the felt a numeric string field (amount, nonce) encodes to
StringFelt(s) == IF BigInt(s).ok THEN BigInt(s).val ELSE ShortStringFelt(s)

\* a field the hash functions are sure to accept: a non-negative numeral
IsPlainFelt(s) == BigInt(s).ok /\ BigInt(s).val >= 0

NoDigest ==
    [scheme |-> "none", name |-> "", version |-> "", chainId |-> "",
     from |-> 0, to |-> 0, token |-> 0, amount |-> 0, nonce |-> 0, deadline |-> 0]

\* starknet-verifier.ts:197-201
getChainIdHex(network) ==
    LET n == toLowerCase(network)
    IN  IF includes(n, <<"m", "a", "i", "n">>) THEN SN_MAIN ELSE SN_SEPOLIA

\* typedData.getMessageHash of the Payment message under a domain with chainId
TypedMessageHash(payload, chainId) ==
    [scheme |-> "typed", name |-> "x402 Payment", version |-> "1",
     chainId |-> chainId,
     from |-> AddressFelt(payload.from),
     to |-> AddressFelt(payload.to),
     token |-> AddressFelt(payload.token),
     amount |-> StringFelt(payload.amount),
     nonce |-> StringFelt(payload.nonce),
     deadline |-> payload.deadline]

\* hash.computeHashOnElements([from, to, token, amount, nonce, deadline])
\* starknet-verifier.ts:248-258
computeFallbackPaymentHash(payload) ==
    [scheme |-> "legacy", name |-> "", version |-> "", chainId |-> "",
     from |-> AddressFelt(payload.from),
     to |-> AddressFelt(payload.to),
     token |-> AddressFelt(payload.token),
     amount |-> StringFelt(payload.amount),
     nonce |-> StringFelt(payload.nonce),
     deadline |-> payload.deadline]

NoSignature == [present |-> FALSE, key |-> 0, digest |-> NoDigest]

Sign(key, digest) == [present |-> TRUE, key |-> key, digest |-> digest]

\* the public key of the account contract deployed at an address
PublicKeyOf(address) == AddressFelt(address)

\* ec.starkCurve.verify(signature, messageHash, publicKey)
EcVerify(signature, messageHash, publicKey) ==
    signature.present /\ signature.key = publicKey /\ signature.digest = messageHash

(***************************************************************************)
(* The inputs of a call.                                                   *)
(***************************************************************************)
ADDR_A == <<"0", "x", "a">>
ADDR_B == <<"0", "x", "b">>
ADDR_B_UPPER == <<"0", "x", "B">>
ADDR_C == <<"0", "x", "c">>
ADDR_D == <<"0", "x", "d">>
ADDR_D_UPPER == <<"0", "x", "D">>
ADDR_E == <<"0", "x", "e">>
\* not hexadecimal
ADDR_BAD_CHAR == <<"0", "x", "g">>
\* one hex digit more than the 64 a felt address may have
ADDR_TOO_LONG == [i \in 1..(MaxHexLen + 1) |-> "a"]

STARKNET_MAINNET ==
    <<"s", "t", "a", "r", "k", "n", "e", "t", "-", "m", "a", "i", "n", "n", "e", "t">>
STARKNET_SEPOLIA ==
    <<"s", "t", "a", "r", "k", "n", "e", "t", "-", "s", "e", "p", "o", "l", "i", "a">>

Networks == {STARKNET_MAINNET, STARKNET_SEPOLIA}
ChainIds == {SN_MAIN, SN_SEPOLIA}

Froms == {ADDR_A, UNDEFINED}
Tos == {ADDR_B, ADDR_C, ADDR_BAD_CHAR}
Tokens == {ADDR_D, ADDR_E, ADDR_TOO_LONG}
Amounts == {BigIntToString(n) : n \in (0 - 1)..(MaxAmt + 1)} \cup {<<"x">>}
Nonces == {<<"1">>, <<"-", "1">>, <<"x">>}
Deadlines == 0..(MaxNow + MaxTimeout + 1)
ClockValues == 1..MaxNow

\* the fields of the signed message a client may alter after signing
AlterableFields == {"amount", "deadline", "nonce", "to", "token"}

\* the payload with one field changed to another value (another felt)
Altered(p, f) ==
    CASE f = "amount" ->
           [p EXCEPT !.amount = IF BigInt(p.amount).ok
                                THEN BigIntToString(BigInt(p.amount).val + 1)
                                ELSE <<"1">>]
      [] f = "deadline" -> [p EXCEPT !.deadline = p.deadline + 1]
      [] f = "nonce" ->
           [p EXCEPT !.nonce = IF p.nonce = <<"1">> THEN <<"2">> ELSE <<"1">>]
      [] f = "to" ->
           [p EXCEPT !.to = IF AddressFelt(p.to) = AddressFelt(ADDR_C)
                            THEN ADDR_B ELSE ADDR_C]
      [] f = "token" ->
           [p EXCEPT !.token = IF AddressFelt(p.token) = AddressFelt(ADDR_E)
                               THEN ADDR_D ELSE ADDR_E]

\* the signatures a client may attach to the unsigned payload p: none; the
\* payer's signature over the typed message of p for either chain, over the
\* typed message (for the test chain) of p as it was before one field was
\* altered, or over the legacy hash of p; and somebody else's signature
Signatures(p) ==
    {NoSignature}
    \cup {Sign(PublicKeyOf(p.from), TypedMessageHash(p, c)) : c \in ChainIds}
    \cup {Sign(PublicKeyOf(p.from), TypedMessageHash(Altered(p, f), SN_SEPOLIA)) :
              f \in AlterableFields}
    \cup {Sign(PublicKeyOf(p.from), computeFallbackPaymentHash(p))}
    \cup {Sign(PublicKeyOf(ADDR_C), TypedMessageHash(p, SN_SEPOLIA))}

Unsigned ==
    [from : Froms, to : Tos, token : Tokens, amount : Amounts, nonce : Nonces,
     deadline : Deadlines, signature : {NoSignature}]

Requirements ==
    [payTo : {ADDR_B_UPPER}, asset : {ADDR_D_UPPER},
     maxAmountRequired : {BigIntToString(MaxAmt)},
     maxTimeoutSeconds : {MaxTimeout}, network : Networks]

\* FacilitatorConfig as the verifier reads it: network may be absent
Configs == [network : {STARKNET_MAINNET, UNDEFINED}]

(***************************************************************************)
(* Results and reasons.  A reason is the sequence of the pieces of its     *)
(* text; the null reason of a valid response is the empty sequence.        *)
(***************************************************************************)
NullReason == <<>>
NoResult == [returned |-> FALSE, isValid |-> FALSE, invalidReason |-> NullReason]
Valid == [returned |-> TRUE, isValid |-> TRUE, invalidReason |-> NullReason]
Invalid(reason) == [returned |-> TRUE, isValid |-> FALSE, invalidReason |-> reason]

\* a chain query's outcome: not made yet, an error, or a list of felts
NoResponse == [got |-> FALSE, err |-> FALSE, vals |-> <<>>]
QueryError == [got |-> TRUE, err |-> TRUE, vals |-> <<>>]
QueryResult(vals) == [got |-> TRUE, err |-> FALSE, vals |-> vals]

VARIABLES
    config,          \* the verifier's FacilitatorConfig
    payload,         \* the call's payload
    requirements,    \* the call's requirements
    pc,              \* where the call is
    now,             \* Math.floor(Date.now() / 1000), the time of the call (line 92)
    checks,          \* the checks begun so far, in order
    queries,         \* the chain queries issued so far: <<check, entrypoint>>
    errors,          \* the errors raised so far, by the place that raised them
    messageHash,     \* the typed-message hash of the primary path
    primaryResponse, \* the answer to is_valid_signature
    sigPath,         \* the path that decided the signature: none, primary, fallback
    sigValid,        \* verifySignature's value: unset, true, false
    balanceResponse, \* the answer to balanceOf
    publicKeyResponse, \* the answer to get_public_key
    thrown,          \* the message of the error on its way to the catch of line 148
    result,          \* the VerifyResponse returned
    returns,         \* how many times the call has returned
    history          \* the responses of the verifier's earlier calls on the payload

\* the StarknetSettler and its settleExactPayment calls
VARIABLES
    settlerConfig,   \* the settler's FacilitatorConfig: privateKey, accountAddress
    account,         \* this.account: null or the facilitator's Account
    callPc,          \* where each settle call is
    txHash,          \* each call's txHash (line 437), <<>> before it is known
    chainCalls,      \* the chain interactions so far, in order: <<call, kind>>
    waitOutcome,     \* how each call's provider.waitForTransaction ended
    waited,          \* polling intervals elapsed while each call awaits it
    settleError,     \* the error each call caught at line 448
    settleResult,    \* the SettleResponse each call returned
    settleReturns    \* how many times each call has returned

settlerVars == <<settlerConfig, account, callPc, txHash, chainCalls, waitOutcome,
                 waited, settleError, settleResult, settleReturns>>

verifierVars == <<config, pc, now, checks, queries, errors, messageHash,
                  primaryResponse, sigPath, sigValid, balanceResponse,
                  publicKeyResponse, thrown, result, returns, history>>

vars == <<payload, requirements, verifierVars, settlerVars>>

(***************************************************************************)
(* StarknetSettler, starknet-verifier.ts:389-561: its inputs, the values   *)
(* of its calls, and what the chain-access calls may answer.               *)
(***************************************************************************)
\* the settle calls in flight on the one settler
Calls == {1, 2}

NULL == <<"null">>

KEY == <<"0", "x", "1">>
KEY_MALFORMED == <<"k", "e", "y">>

\* FacilitatorConfig as the settler reads it
SettlerConfigs ==
    [privateKey : {UNDEFINED, KEY, KEY_MALFORMED}, accountAddress : {UNDEFINED, ADDR_C}]

NullAccount == [initialized |-> FALSE, address |-> NULL]
Account(address) == [initialized |-> TRUE, address |-> address]

\* !value of a string that may be absent
Falsy(value) == value = UNDEFINED \/ value = <<>>

\* an identity is configured: line 405
IdentityConfigured(cfg) == ~Falsy(cfg.privateKey) /\ ~Falsy(cfg.accountAddress)

\* initializeAccount keeping the account it built when a field is missing
initializeAccount_NoGuard(cfg) == {Account(cfg.accountAddress)}

\* lines 403-422, run to its end by the constructor (it awaits nothing): the
\* accounts this.account may hold afterwards.  Signer may reject a key that is
\* no number, and the catch of line 418 leaves null.
initializeAccount(cfg) ==
    IF ~IdentityConfigured(cfg) THEN {NullAccount}
    ELSE IF startsWith(cfg.privateKey, <<"0", "x">>)
            /\ IsHexString(SubSeq(cfg.privateKey, 3, Len(cfg.privateKey)))
    THEN {Account(cfg.accountAddress)}
    ELSE {NullAccount, Account(cfg.accountAddress)}

\* a thrown value: an Error with its message, or something that is no Error
ErrorOf(message) == [isError |-> TRUE, message |-> message]
NonError == [isError |-> FALSE, message |-> <<>>]

\* line 452
ErrorText(error) == IF error.isError THEN error.message ELSE <<"Settlement failed">>

\* SettleResponse, lines 442-447 and 450-455
NoSettleResult ==
    [returned |-> FALSE, success |-> FALSE, error |-> NULL, txHash |-> NULL,
     networkId |-> NULL]
Settled(hash, network) ==
    [returned |-> TRUE, success |-> TRUE, error |-> NULL, txHash |-> hash,
     networkId |-> network]
Failed(error, network) ==
    [returned |-> TRUE, success |-> FALSE, error |-> ErrorText(error), txHash |-> NULL,
     networkId |-> network]

\* the payloads settle is called with: settle reads from, to, token, amount
SettlePayloads ==
    [from : {ADDR_A}, to : {ADDR_B}, token : {ADDR_D},
     amount : {<<"1">>, <<"-", "1">>, <<"x">>}, nonce : {<<"1">>},
     deadline : {MaxNow + 1}, signature : {NoSignature}]

\* whether building the call of lines 467-475 throws: BigInt does on what is
\* no integer numeral, and uint256.bnToUint256 may on a negative number
CalldataThrows(p) ==
    IF ~BigInt(p.amount).ok THEN {TRUE}
    ELSE IF BigInt(p.amount).val < 0 THEN {FALSE, TRUE}
    ELSE {FALSE}

CalldataErrorMessage(p) ==
    IF ~BigInt(p.amount).ok THEN BigIntErrorMessage(p.amount)
    ELSE <<"bigNumberish is smaller than UINT_256_MIN">>

\* the transfer_from call of lines 467-475
TransferCall(c, p) ==
    [call |-> c, kind |-> "execute", target |-> p.token,
     args |-> <<"transfer_from", p.from, p.to, p.amount>>]

\* provider.waitForTransaction(txHash), line 440
WaitCall(c, hash) ==
    [call |-> c, kind |-> "waitForTransaction", target |-> hash, args |-> <<>>]

\* the identifier the chain gives the n-th transaction submitted
TxHashOf(n) == <<"0xtx", NatToString(n)>>

\* how account.execute may end (line 477): it rejects, or it resolves with a
\* response naming the transaction in either field, or in none
ExecuteOutcomes(hash) ==
    {[rejected |-> TRUE, error |-> e, transaction_hash |-> UNDEFINED,
      transactionHash |-> UNDEFINED] : e \in {ErrorOf(<<"execute failed">>), NonError}}
    \cup {[rejected |-> FALSE, error |-> NonError, transaction_hash |-> h1,
           transactionHash |-> h2] :
              <<h1, h2>> \in {<<hash, UNDEFINED>>, <<UNDEFINED, hash>>,
                              <<UNDEFINED, UNDEFINED>>}}

\* the transaction's receipt: its execution status and, reverted, the reason
\* the chain gives, if it gives one
RevertReasons == {<<"insufficient allowance">>, UNDEFINED}
Receipts ==
    {[execution_status |-> "SUCCEEDED", revert_reason |-> UNDEFINED]}
    \cup {[execution_status |-> "REVERTED", revert_reason |-> r] : r \in RevertReasons}
NoReceipt == [execution_status |-> "NONE", revert_reason |-> UNDEFINED]

\* how the library's provider.waitForTransaction may end (line 440): it
\* resolves with the receipt of the transaction once the chain has included
\* it, executed or reverted, or it rejects with an error of its own
NotWaited == [ended |-> "no", receipt |-> NoReceipt, error |-> NonError]
WaitErrors ==
    {ErrorOf(<<"waitForTransaction timed-out">>),
     ErrorOf(<<"fetch failed">>),
     NonError}
WaitForTransactionOutcomes ==
    {[ended |-> "resolved", receipt |-> r, error |-> NonError] : r \in Receipts}
    \cup {[ended |-> "rejected", receipt |-> NoReceipt, error |-> e] : e \in WaitErrors}

\* no settler in the picture: the state of these variables while verify runs
SettlerIdle ==
    /\ settlerConfig = [privateKey |-> UNDEFINED, accountAddress |-> UNDEFINED]
    /\ account = NullAccount
    /\ callPc = [c \in Calls |-> "idle"]
    /\ txHash = [c \in Calls |-> NULL]
    /\ chainCalls = <<>>
    /\ waitOutcome = [c \in Calls |-> NotWaited]
    /\ waited = [c \in Calls |-> "no"]
    /\ settleError = [c \in Calls |-> <<>>]
    /\ settleResult = [c \in Calls |-> NoSettleResult]
    /\ settleReturns = [c \in Calls |-> 0]

Init ==
    /\ \E p \in Unsigned : \E sg \in Signatures(p) :
          payload = [p EXCEPT !.signature = sg]
    /\ config \in Configs
    /\ requirements \in Requirements
    /\ pc = "check1"
    /\ now \in ClockValues
    /\ checks = <<>>
    /\ queries = <<>>
    /\ errors = <<>>
    /\ messageHash = NoDigest
    /\ primaryResponse = NoResponse
    /\ sigPath = "none"
    /\ sigValid = "unset"
    /\ balanceResponse = NoResponse
    /\ publicKeyResponse = NoResponse
    /\ thrown = <<>>
    /\ result = NoResult
    /\ returns = 0
    /\ history = <<>>
    /\ SettlerIdle

(***************************************************************************)
(* verifyExactPayment, starknet-verifier.ts:30-155, one action per check   *)
(* and per chain round trip.                                               *)
(***************************************************************************)
\* `return response` from verifyExactPayment
Return(response) ==
    /\ result' = response
    /\ returns' = returns + 1
    /\ pc' = "done"

\* an error leaves the try block of line 34 for the catch of line 148
Throw(place, message) ==
    /\ thrown' = message
    /\ errors' = Append(errors, place)
    /\ pc' = "catch"

\* 1. Verify basic fields, lines 35-55
CheckAddresses ==
    /\ pc = "check1"
    /\ checks' = Append(checks, 1)
    /\ IF ~isValidStarknetAddress(payload.from)
       THEN Return(Invalid(<<"Invalid sender address">>))
       ELSE IF ~isValidStarknetAddress(payload.to)
       THEN Return(Invalid(<<"Invalid recipient address">>))
       ELSE IF ~isValidStarknetAddress(payload.token)
       THEN Return(Invalid(<<"Invalid token address">>))
       ELSE pc' = "check2" /\ UNCHANGED <<result, returns>>
    /\ UNCHANGED <<settlerVars, history, publicKeyResponse, config, payload, requirements,
                   now, queries, errors, messageHash,
                   primaryResponse, sigPath, sigValid, balanceResponse, thrown>>

\* CheckRecipient comparing nothing: every recipient goes on to the token check
CheckRecipient_Skipped ==
    /\ pc = "check2"
    /\ checks' = Append(checks, 2)
    /\ pc' = "check3"
    /\ UNCHANGED <<settlerVars, history, publicKeyResponse, config, payload, requirements,
                   now, queries, errors, messageHash,
                   primaryResponse, sigPath, sigValid, balanceResponse, thrown,
                   result, returns>>

\* 2. Verify recipient matches requirements, lines 57-63
CheckRecipient ==
    /\ pc = "check2"
    /\ checks' = Append(checks, 2)
    /\ IF toLowerCase(payload.to) # toLowerCase(requirements.payTo)
       THEN Return(Invalid(<<"Recipient address does not match requirements">>))
       ELSE pc' = "check3" /\ UNCHANGED <<result, returns>>
    /\ UNCHANGED <<settlerVars, history, publicKeyResponse, config, payload, requirements,
                   now, queries, errors, messageHash,
                   primaryResponse, sigPath, sigValid, balanceResponse, thrown>>

\* CheckToken with its `return` lost: a mismatch falls through to the amount
CheckToken_NoReturn ==
    /\ pc = "check3"
    /\ checks' = Append(checks, 3)
    /\ pc' = "check4"
    /\ UNCHANGED <<settlerVars, history, publicKeyResponse, config, payload, requirements,
                   now, queries, errors, messageHash,
                   primaryResponse, sigPath, sigValid, balanceResponse, thrown,
                   result, returns>>

\* 3. Verify token matches requirements, lines 65-71
CheckToken ==
    /\ pc = "check3"
    /\ checks' = Append(checks, 3)
    /\ IF toLowerCase(payload.token) # toLowerCase(requirements.asset)
       THEN Return(Invalid(<<"Token address does not match requirements">>))
       ELSE pc' = "check4" /\ UNCHANGED <<result, returns>>
    /\ UNCHANGED <<settlerVars, history, publicKeyResponse, config, payload, requirements,
                   now, queries, errors, messageHash,
                   primaryResponse, sigPath, sigValid, balanceResponse, thrown>>

\* CheckAmount with `amount < 0n` for `amount <= 0n` at line 84
CheckAmount_ZeroAllowed ==
    /\ pc = "check4"
    /\ checks' = Append(checks, 4)
    /\ LET amount == BigInt(payload.amount)
           maxAmount == BigInt(requirements.maxAmountRequired)
       IN  IF ~amount.ok
           THEN Throw("amount", BigIntErrorMessage(payload.amount))
                /\ UNCHANGED <<result, returns>>
           ELSE IF amount.val > maxAmount.val
           THEN Return(Invalid(<<"Amount ">> \o BigIntToString(amount.val)
                               \o <<" exceeds maximum ">>
                               \o BigIntToString(maxAmount.val)))
                /\ UNCHANGED <<errors, thrown>>
           ELSE IF amount.val < 0
           THEN Return(Invalid(<<"Amount must be greater than zero">>))
                /\ UNCHANGED <<errors, thrown>>
           ELSE pc' = "check5" /\ UNCHANGED <<result, returns, errors, thrown>>
    /\ UNCHANGED <<settlerVars, history, publicKeyResponse, config, payload, requirements,
                   now, queries, messageHash,
                   primaryResponse, sigPath, sigValid, balanceResponse>>

\* 4. Verify amount, lines 73-89
CheckAmount ==
    /\ pc = "check4"
    /\ checks' = Append(checks, 4)
    /\ LET amount == BigInt(payload.amount)
           maxAmount == BigInt(requirements.maxAmountRequired)
       IN  IF ~amount.ok
           THEN Throw("amount", BigIntErrorMessage(payload.amount))
                /\ UNCHANGED <<result, returns>>
           ELSE IF ~maxAmount.ok
           THEN Throw("maxAmountRequired",
                      BigIntErrorMessage(requirements.maxAmountRequired))
                /\ UNCHANGED <<result, returns>>
           ELSE IF amount.val > maxAmount.val
           THEN Return(Invalid(<<"Amount ">> \o BigIntToString(amount.val)
                               \o <<" exceeds maximum ">>
                               \o BigIntToString(maxAmount.val)))
                /\ UNCHANGED <<errors, thrown>>
           ELSE IF amount.val <= 0
           THEN Return(Invalid(<<"Amount must be greater than zero">>))
                /\ UNCHANGED <<errors, thrown>>
           ELSE pc' = "check5" /\ UNCHANGED <<result, returns, errors, thrown>>
    /\ UNCHANGED <<settlerVars, history, publicKeyResponse, config, payload, requirements,
                   now, queries, messageHash,
                   primaryResponse, sigPath, sigValid, balanceResponse>>

\* CheckDeadline with `deadline < now` for `deadline <= now` at line 93
CheckDeadline_NowAllowed ==
    /\ pc = "check5"
    /\ checks' = Append(checks, 5)
    /\ IF payload.deadline < now
       THEN Return(Invalid(<<"Payment deadline has expired">>))
       ELSE IF payload.deadline - now > requirements.maxTimeoutSeconds
       THEN Return(Invalid(<<"Payment deadline exceeds maximum timeout">>))
       ELSE pc' = "sig_primary" /\ UNCHANGED <<result, returns>>
    /\ UNCHANGED <<settlerVars, history, publicKeyResponse, config, payload, requirements,
                   now, queries, errors, messageHash,
                   primaryResponse, sigPath, sigValid, balanceResponse, thrown>>

\* CheckDeadline with `>=` for `>` at line 102
CheckDeadline_LimitRejected ==
    /\ pc = "check5"
    /\ checks' = Append(checks, 5)
    /\ IF payload.deadline <= now
       THEN Return(Invalid(<<"Payment deadline has expired">>))
       ELSE IF payload.deadline - now >= requirements.maxTimeoutSeconds
       THEN Return(Invalid(<<"Payment deadline exceeds maximum timeout">>))
       ELSE pc' = "sig_primary" /\ UNCHANGED <<result, returns>>
    /\ UNCHANGED <<settlerVars, history, publicKeyResponse, config, payload, requirements,
                   now, queries, errors, messageHash,
                   primaryResponse, sigPath, sigValid, balanceResponse, thrown>>

\* 5. Verify deadline, lines 91-107; now is the clock as line 92 reads it
CheckDeadline ==
    /\ pc = "check5"
    /\ checks' = Append(checks, 5)
    /\ IF payload.deadline <= now
       THEN Return(Invalid(<<"Payment deadline has expired">>))
       ELSE IF payload.deadline - now > requirements.maxTimeoutSeconds
       THEN Return(Invalid(<<"Payment deadline exceeds maximum timeout">>))
       ELSE pc' = "sig_primary" /\ UNCHANGED <<result, returns>>
    /\ UNCHANGED <<settlerVars, history, publicKeyResponse, config, payload, requirements,
                   now, queries, errors, messageHash,
                   primaryResponse, sigPath, sigValid, balanceResponse, thrown>>

(***************************************************************************)
(* 6. verifySignature, starknet-verifier.ts:160-195.                       *)
(***************************************************************************)
\* computeTypedPaymentMessageHash leaving the nonce out of the message
computeTypedPaymentMessageHash_NoNonce(p) ==
    TypedMessageHash([p EXCEPT !.nonce = <<"0">>],
                     getChainIdHex(IF config.network = UNDEFINED
                                   THEN STARKNET_SEPOLIA
                                   ELSE config.network))

\* starknet-verifier.ts:206-243: the domain's chainId comes from the
\* verifier's config, NETWORKS.STARKNET_SEPOLIA standing in for an absent one
computeTypedPaymentMessageHash(p) ==
    TypedMessageHash(p, getChainIdHex(IF config.network = UNDEFINED
                                      THEN STARKNET_SEPOLIA
                                      ELSE config.network))

\* whether a hash function of the starknet library throws on the payload: it
\* does not on plain felts, it does on what BigInt rejects when it needs a
\* number, and on a negative numeral either may happen
TypedHashThrows(p) ==
    IF IsPlainFelt(p.nonce) THEN {FALSE} ELSE {FALSE, TRUE}

LegacyHashThrows(p) ==
    IF IsPlainFelt(p.nonce) THEN {FALSE}
    ELSE IF ~BigInt(p.nonce).ok THEN {TRUE}
    ELSE {FALSE, TRUE}

\* what the chain may answer to is_valid_signature(hash, [r, s]) on the
\* account at p.from: an error (no such entry point, no such contract, the
\* node unreachable), nothing, or the account's verdict on the signature
IsValidSignatureResponses(p, hash) ==
    {QueryError, QueryResult(<<>>),
     QueryResult(<<IF EcVerify(p.signature, hash, PublicKeyOf(p.from)) THEN 1 ELSE 0>>)}

\* what the chain may answer to get_public_key() on the account at p.from
GetPublicKeyResponses(p) ==
    {QueryError, QueryResult(<<>>), QueryResult(<<PublicKeyOf(p.from)>>)}

\* lines 110-117: verifySignature has returned isSignatureValid
AfterSignature(path, isSignatureValid) ==
    /\ sigPath' = path
    /\ sigValid' = IF isSignatureValid THEN "true" ELSE "false"
    /\ IF ~isSignatureValid
       THEN Return(Invalid(<<"Invalid signature">>))
       ELSE pc' = "check7" /\ UNCHANGED <<result, returns>>

\* lines 163-175: hash the payload and call is_valid_signature.  An error
\* before the call (the hash, or reading r and s of an absent signature) is
\* caught at line 181 like an error of the call.
SigPrimaryCall ==
    /\ pc = "sig_primary"
    /\ checks' = Append(checks, 6)
    /\ \E threw \in TypedHashThrows(payload) :
          IF threw
          THEN /\ errors' = Append(errors, "typed_hash")
               /\ pc' = "sig_fallback"
               /\ UNCHANGED <<messageHash, queries>>
          ELSE /\ messageHash' = computeTypedPaymentMessageHash(payload)
               /\ IF ~payload.signature.present
                  THEN /\ errors' = Append(errors, "signature_fields")
                       /\ pc' = "sig_fallback"
                       /\ UNCHANGED queries
                  ELSE /\ queries' = Append(queries, <<6, "is_valid_signature">>)
                       /\ pc' = "sig_primary_wait"
                       /\ UNCHANGED errors
    /\ UNCHANGED <<settlerVars, history, publicKeyResponse, config, payload, requirements,
                   now, primaryResponse, sigPath,
                   sigValid, balanceResponse, thrown, result, returns>>

\* lines 166-181: the answer to is_valid_signature
SigPrimaryReturn ==
    /\ pc = "sig_primary_wait"
    /\ \E res \in IsValidSignatureResponses(payload, messageHash) :
          /\ primaryResponse' = res
          /\ IF res.err
             THEN /\ errors' = Append(errors, "is_valid_signature")
                  /\ pc' = "sig_fallback"
                  /\ UNCHANGED <<sigPath, sigValid, result, returns>>
             ELSE /\ AfterSignature("primary", Len(res.vals) >= 1 /\ res.vals[1] # 0)
                  /\ UNCHANGED errors
    /\ UNCHANGED <<settlerVars, history, publicKeyResponse, config, payload, requirements,
                   now, checks, queries, messageHash,
                   balanceResponse, thrown>>

\* lines 183-185: the legacy hash, then getAccountPublicKey's query
SigFallbackCall ==
    /\ pc = "sig_fallback"
    /\ \E threw \in LegacyHashThrows(payload) :
          IF threw
          THEN /\ errors' = Append(errors, "legacy_hash")
               /\ AfterSignature("fallback", FALSE)
               /\ UNCHANGED queries
          ELSE /\ queries' = Append(queries, <<6, "get_public_key">>)
               /\ pc' = "sig_fallback_wait"
               /\ UNCHANGED <<errors, sigPath, sigValid, result, returns>>
    /\ UNCHANGED <<settlerVars, history, publicKeyResponse, config, payload, requirements,
                   now, checks, messageHash,
                   primaryResponse, balanceResponse, thrown>>

\* SigFallbackReturn without the catch of lines 279-282 and 190-193: an error
\* of the get_public_key query leaves verifySignature
SigFallbackReturn_Propagates ==
    /\ pc = "sig_fallback_wait"
    /\ \E res \in GetPublicKeyResponses(payload) :
          /\ publicKeyResponse' = res
          /\ IF res.err
             THEN /\ Throw("get_public_key", <<"get_public_key failed">>)
                  /\ UNCHANGED <<sigPath, sigValid, result, returns>>
             ELSE IF Len(res.vals) = 0
             THEN /\ AfterSignature("fallback", FALSE)
                  /\ UNCHANGED <<errors, thrown>>
             ELSE IF ~payload.signature.present
             THEN /\ errors' = Append(errors, "signature_fields")
                  /\ AfterSignature("fallback", FALSE)
                  /\ UNCHANGED thrown
             ELSE /\ AfterSignature("fallback",
                                    EcVerify(payload.signature,
                                             computeFallbackPaymentHash(payload),
                                             res.vals[1]))
                  /\ UNCHANGED <<errors, thrown>>
    /\ UNCHANGED <<settlerVars, history, config, payload, requirements, now, checks, queries,
                   messageHash, primaryResponse, balanceResponse>>

\* lines 185-193 and getAccountPublicKey, lines 263-283
SigFallbackReturn ==
    /\ pc = "sig_fallback_wait"
    /\ \E res \in GetPublicKeyResponses(payload) :
          /\ publicKeyResponse' = res
          /\ IF res.err
             THEN /\ errors' = Append(errors, "get_public_key")
                  /\ AfterSignature("fallback", FALSE)
                  /\ UNCHANGED thrown
             ELSE IF Len(res.vals) = 0
             THEN /\ AfterSignature("fallback", FALSE)
                  /\ UNCHANGED <<errors, thrown>>
             ELSE IF ~payload.signature.present
             THEN /\ errors' = Append(errors, "signature_fields")
                  /\ AfterSignature("fallback", FALSE)
                  /\ UNCHANGED thrown
             ELSE /\ AfterSignature("fallback",
                                    EcVerify(payload.signature,
                                             computeFallbackPaymentHash(payload),
                                             res.vals[1]))
                  /\ UNCHANGED <<errors, thrown>>
    /\ UNCHANGED <<settlerVars, history, config, payload, requirements, now, checks, queries,
                   messageHash, primaryResponse, balanceResponse>>

(***************************************************************************)
(* 7. verifyNonce, lines 288-311, and 8. checkBalance, lines 316-343.      *)
(***************************************************************************)
\* verifyNonce refusing the nonce of a payload the verifier has found valid
verifyNonce_RejectsUsed(p) ==
    LET nonce == BigInt(p.nonce)
    IN  IF ~nonce.ok THEN FALSE
        ELSE IF nonce.val < 0 THEN FALSE
        ELSE \A i \in 1..Len(history) : ~history[i].isValid

\* lines 295-306; a BigInt error is caught at line 307
verifyNonce(p) ==
    LET nonce == BigInt(p.nonce)
    IN  IF ~nonce.ok THEN FALSE
        ELSE IF nonce.val < 0 THEN FALSE
        ELSE TRUE

CheckNonce ==
    /\ pc = "check7"
    /\ checks' = Append(checks, 7)
    /\ errors' = IF BigInt(payload.nonce).ok THEN errors ELSE Append(errors, "nonce")
    /\ IF ~verifyNonce(payload)
       THEN Return(Invalid(<<"Invalid or already used nonce">>))
       ELSE pc' = "check8" /\ UNCHANGED <<result, returns>>
    /\ UNCHANGED <<settlerVars, history, publicKeyResponse, config, payload, requirements,
                   now, queries, messageHash,
                   primaryResponse, sigPath, sigValid, balanceResponse, thrown>>

\* what the chain may answer to balanceOf(account): an error, one felt, or
\* the two limbs (low, high) of a u256
BalanceResponses ==
    {QueryError, QueryResult(<<MaxAmt>>)}
    \cup {QueryResult(<<low, high>>) : low \in 0..MaxAmt, high \in 0..1}

\* checkBalance taking a one-felt answer for the balance
hasSufficientBalance_OneFelt(res, amount) ==
    IF res.err THEN FALSE
    ELSE IF Len(res.vals) >= 1
    THEN (Len(res.vals) >= 2 /\ res.vals[2] > 0) \/ res.vals[1] >= amount
    ELSE FALSE

\* lines 329-338: balanceLow + (balanceHigh << 128n) >= amount, computed on
\* the limbs (low and amount are below 2^128 here)
hasSufficientBalance(res, amount) ==
    IF res.err THEN FALSE
    ELSE IF Len(res.vals) >= 2
    THEN LET balanceLow == res.vals[1]
             balanceHigh == res.vals[2]
         IN  balanceHigh > 0 \/ balanceLow >= amount
    ELSE FALSE

\* lines 323-327
BalanceCall ==
    /\ pc = "check8"
    /\ checks' = Append(checks, 8)
    /\ queries' = Append(queries, <<8, "balanceOf">>)
    /\ pc' = "check8_wait"
    /\ UNCHANGED <<settlerVars, history, publicKeyResponse, config, payload, requirements,
                   now, errors, messageHash,
                   primaryResponse, sigPath, sigValid, balanceResponse, thrown,
                   result, returns>>

\* lines 130-147
BalanceReturn ==
    /\ pc = "check8_wait"
    /\ \E res \in BalanceResponses :
          /\ balanceResponse' = res
          /\ errors' = IF res.err THEN Append(errors, "balanceOf") ELSE errors
          /\ IF ~hasSufficientBalance(res, BigInt(payload.amount).val)
             THEN Return(Invalid(<<"Insufficient token balance">>))
             ELSE Return(Valid)
    /\ UNCHANGED <<settlerVars, history, publicKeyResponse, config, payload, requirements,
                   now, checks, queries, messageHash,
                   primaryResponse, sigPath, sigValid, thrown>>

\* Catch without the handler of lines 148-154: the error leaves the call
Catch_Rethrow ==
    /\ pc = "catch"
    /\ pc' = "thrown"
    /\ UNCHANGED <<settlerVars, history, publicKeyResponse, config, payload, requirements,
                   now, checks, queries, errors,
                   messageHash, primaryResponse, sigPath, sigValid, balanceResponse,
                   thrown, result, returns>>

\* lines 148-154: every error that left the try block becomes a response
Catch ==
    /\ pc = "catch"
    /\ Return(Invalid(thrown))
    /\ UNCHANGED <<settlerVars, history, publicKeyResponse, config, payload, requirements,
                   now, checks, queries, errors,
                   messageHash, primaryResponse, sigPath, sigValid, balanceResponse,
                   thrown>>

Next ==
    \/ CheckAddresses
    \/ CheckRecipient
    \/ CheckToken
    \/ CheckAmount
    \/ CheckDeadline
    \/ SigPrimaryCall
    \/ SigPrimaryReturn
    \/ SigFallbackCall
    \/ SigFallbackReturn
    \/ CheckNonce
    \/ BalanceCall
    \/ BalanceReturn
    \/ Catch

Spec == Init /\ [][Next]_vars

(***************************************************************************)
(* settleExactPayment, starknet-verifier.ts:427-457, one action for each   *)
(* stretch of a call between two awaits.  Calls on one settler interleave  *)
(* at their awaits.                                                        *)
(***************************************************************************)
\* no verify call in the picture: the state of its variables while settle runs
VerifierIdle ==
    /\ config = [network |-> UNDEFINED]
    /\ pc = "idle"
    /\ now = MaxNow
    /\ checks = <<>>
    /\ queries = <<>>
    /\ errors = <<>>
    /\ messageHash = NoDigest
    /\ primaryResponse = NoResponse
    /\ sigPath = "none"
    /\ sigValid = "unset"
    /\ balanceResponse = NoResponse
    /\ publicKeyResponse = NoResponse
    /\ thrown = <<>>
    /\ result = NoResult
    /\ history = <<>>

SettleInit ==
    /\ payload \in SettlePayloads
    /\ requirements \in Requirements
    /\ VerifierIdle
    /\ returns = 0
    /\ settlerConfig \in SettlerConfigs
    /\ account \in initializeAccount(settlerConfig)
    /\ callPc = [c \in Calls |-> "start"]
    /\ txHash = [c \in Calls |-> NULL]
    /\ chainCalls = <<>>
    /\ waitOutcome = [c \in Calls |-> NotWaited]
    /\ waited = [c \in Calls |-> "no"]
    /\ settleError = [c \in Calls |-> <<>>]
    /\ settleResult = [c \in Calls |-> NoSettleResult]
    /\ settleReturns = [c \in Calls |-> 0]

\* SettleCatch without the handler of lines 448-456: the error leaves settle
SettleCatch_Rethrow(c, error) ==
    /\ settleError' = [settleError EXCEPT ![c] = <<error>>]
    /\ callPc' = [callPc EXCEPT ![c] = "thrown"]
    /\ UNCHANGED <<settleResult, settleReturns>>

\* SettleCatch reporting the transaction it had submitted
SettleCatch_KeepsHash(c, error) ==
    /\ settleError' = [settleError EXCEPT ![c] = <<error>>]
    /\ settleResult' = [settleResult EXCEPT
                           ![c] = [Failed(error, requirements.network) EXCEPT
                                      !.txHash = txHash[c]]]
    /\ settleReturns' = [settleReturns EXCEPT ![c] = @ + 1]
    /\ callPc' = [callPc EXCEPT ![c] = "done"]

\* lines 448-456: the catch of settleExactPayment returns the failure
SettleCatch(c, error) ==
    /\ settleError' = [settleError EXCEPT ![c] = <<error>>]
    /\ settleResult' = [settleResult EXCEPT ![c] = Failed(error, requirements.network)]
    /\ settleReturns' = [settleReturns EXCEPT ![c] = @ + 1]
    /\ callPc' = [callPc EXCEPT ![c] = "done"]

\* lines 442-447
SettleReturn(c, hash) ==
    /\ settleResult' = [settleResult EXCEPT ![c] = Settled(hash, requirements.network)]
    /\ settleReturns' = [settleReturns EXCEPT ![c] = @ + 1]
    /\ callPc' = [callPc EXCEPT ![c] = "done"]
    /\ UNCHANGED settleError

\* SettleStart refusing a payload for which a transfer was already submitted
SettleStart_Deduplicates(c) ==
    /\ callPc[c] = "start"
    /\ IF ~account.initialized
       THEN /\ SettleCatch(c, ErrorOf(<<"Facilitator account not initialized">>))
            /\ UNCHANGED chainCalls
       ELSE IF \E i \in 1..Len(chainCalls) : chainCalls[i].args = TransferCall(c, payload).args
       THEN /\ SettleCatch(c, ErrorOf(<<"Payment already submitted">>))
            /\ UNCHANGED chainCalls
       ELSE \E threw \in CalldataThrows(payload) :
               IF threw
               THEN /\ SettleCatch(c, ErrorOf(CalldataErrorMessage(payload)))
                    /\ UNCHANGED chainCalls
               ELSE /\ chainCalls' = Append(chainCalls, TransferCall(c, payload))
                    /\ callPc' = [callPc EXCEPT ![c] = "execute_wait"]
                    /\ UNCHANGED <<settleError, settleResult, settleReturns>>
    /\ UNCHANGED <<payload, requirements, verifierVars, settlerConfig, account,
                   txHash, waitOutcome, waited>>

\* lines 431-437 and 462-477: the identity check, the call built from the
\* payload, and account.execute invoked
SettleStart(c) ==
    /\ callPc[c] = "start"
    /\ IF ~account.initialized
       THEN /\ SettleCatch(c, ErrorOf(<<"Facilitator account not initialized">>))
            /\ UNCHANGED chainCalls
       ELSE \E threw \in CalldataThrows(payload) :
               IF threw
               THEN /\ SettleCatch(c, ErrorOf(CalldataErrorMessage(payload)))
                    /\ UNCHANGED chainCalls
               ELSE /\ chainCalls' = Append(chainCalls, TransferCall(c, payload))
                    /\ callPc' = [callPc EXCEPT ![c] = "execute_wait"]
                    /\ UNCHANGED <<settleError, settleResult, settleReturns>>
    /\ UNCHANGED <<payload, requirements, verifierVars, settlerConfig, account,
                   txHash, waitOutcome, waited>>

\* the submissions made so far
Submissions == SelectSeq(chainCalls, LAMBDA call : call.kind = "execute")

\* the place of call c's submission among the submissions
SubmissionIndex(c) ==
    CHOOSE i \in 1..Len(Submissions) : Submissions[i].call = c

\* ExecuteReturn submitting again after account.execute has ended
ExecuteReturn_Retries(c) ==
    /\ callPc[c] = "execute_wait"
    /\ callPc' = [callPc EXCEPT ![c] = "start"]
    /\ UNCHANGED <<payload, requirements, verifierVars, settlerConfig, account,
                   txHash, chainCalls, waitOutcome, waited, settleError,
                   settleResult, settleReturns>>

\* lines 477-482 and 440: account.execute has ended; with a transaction hash,
\* provider.waitForTransaction is invoked
ExecuteReturn(c) ==
    /\ callPc[c] = "execute_wait"
    /\ \E res \in ExecuteOutcomes(TxHashOf(SubmissionIndex(c))) :
          IF res.rejected
          THEN /\ SettleCatch(c, res.error)
               /\ UNCHANGED <<txHash, chainCalls, waited>>
          ELSE LET hash == IF res.transaction_hash # UNDEFINED
                           THEN res.transaction_hash
                           ELSE res.transactionHash
               IN  IF Falsy(hash)
                   THEN /\ SettleCatch(c, ErrorOf(<<"No tx hash returned from account.execute: ",
                                                    "{}">>))
                        /\ UNCHANGED <<txHash, chainCalls, waited>>
                   ELSE /\ txHash' = [txHash EXCEPT ![c] = hash]
                        /\ chainCalls' = Append(chainCalls, WaitCall(c, hash))
                        /\ waited' = [waited EXCEPT ![c] = "within"]
                        /\ callPc' = [callPc EXCEPT ![c] = "confirm_wait"]
                        /\ UNCHANGED <<settleError, settleResult, settleReturns>>
    /\ UNCHANGED <<payload, requirements, verifierVars, settlerConfig, account,
                   waitOutcome>>

\* line 440 awaits the library's promise and nothing else: the wait lasts as
\* long as the library takes, also beyond the 60000 ms of line 490
WaitBeyondBudget(c) ==
    /\ callPc[c] = "confirm_wait"
    /\ waited[c] = "within"
    /\ waited' = [waited EXCEPT ![c] = "beyond"]
    /\ UNCHANGED <<payload, requirements, verifierVars, settlerConfig, account,
                   callPc, txHash, chainCalls, waitOutcome, settleError,
                   settleResult, settleReturns>>

\* lines 440-447: provider.waitForTransaction has ended; its value is not read
WaitReturn(c) ==
    /\ callPc[c] = "confirm_wait"
    /\ \E out \in WaitForTransactionOutcomes :
          /\ waitOutcome' = [waitOutcome EXCEPT ![c] = out]
          /\ IF out.ended = "rejected"
             THEN SettleCatch(c, out.error)
             ELSE SettleReturn(c, txHash[c])
    /\ UNCHANGED <<payload, requirements, verifierVars, settlerConfig, account,
                   txHash, chainCalls, waited>>

SettleNext ==
    \/ \E c \in Calls : SettleStart(c)
    \/ \E c \in Calls : ExecuteReturn(c)
    \/ \E c \in Calls : WaitBeyondBudget(c)
    \/ \E c \in Calls : WaitReturn(c)

SettleSpec == SettleInit /\ [][SettleNext]_vars

(***************************************************************************)
(* The verifier called again on a payload it has answered for, while the   *)
(* payload is being settled: verify calls one after the other on the one   *)
(* verifier, a settle call on the one settler.                             *)
(***************************************************************************)
\* the verify calls made on the payload
MaxVerifyCalls == 2

ReplayNonces == {<<"0">>, <<"1">>, <<"-", "1">>, <<"x">>}

\* payloads for the requirements, signed by the payer for the test chain
ReplayPayloads ==
    {[p EXCEPT !.signature = Sign(PublicKeyOf(p.from), TypedMessageHash(p, SN_SEPOLIA))] :
        p \in [from : {ADDR_A}, to : {ADDR_B}, token : {ADDR_D},
               amount : {<<"1">>, <<"x">>}, nonce : ReplayNonces,
               deadline : {MaxNow + 1}, signature : {NoSignature}]}

ReplayInit ==
    /\ payload \in ReplayPayloads
    /\ config \in Configs
    /\ requirements \in Requirements
    /\ pc = "check1"
    /\ now = 1
    /\ checks = <<>>
    /\ queries = <<>>
    /\ errors = <<>>
    /\ messageHash = NoDigest
    /\ primaryResponse = NoResponse
    /\ sigPath = "none"
    /\ sigValid = "unset"
    /\ balanceResponse = NoResponse
    /\ publicKeyResponse = NoResponse
    /\ thrown = <<>>
    /\ result = NoResult
    /\ returns = 0
    /\ history = <<>>
    /\ settlerConfig = [privateKey |-> KEY, accountAddress |-> ADDR_C]
    /\ account \in initializeAccount(settlerConfig)
    /\ callPc = [c \in Calls |-> IF c = 1 THEN "start" ELSE "idle"]
    /\ txHash = [c \in Calls |-> NULL]
    /\ chainCalls = <<>>
    /\ waitOutcome = [c \in Calls |-> NotWaited]
    /\ waited = [c \in Calls |-> "no"]
    /\ settleError = [c \in Calls |-> <<>>]
    /\ settleResult = [c \in Calls |-> NoSettleResult]
    /\ settleReturns = [c \in Calls |-> 0]

\* lines 30-34: verifyExactPayment is called again with the same payload and
\* requirements, at the same time or later; the call starts from nothing but
\* its arguments and the verifier's config
NewCall ==
    /\ pc = "done"
    /\ Len(history) + 1 < MaxVerifyCalls
    /\ history' = Append(history, result)
    /\ pc' = "check1"
    /\ now' \in now..MaxNow
    /\ checks' = <<>>
    /\ queries' = <<>>
    /\ errors' = <<>>
    /\ messageHash' = NoDigest
    /\ primaryResponse' = NoResponse
    /\ sigPath' = "none"
    /\ sigValid' = "unset"
    /\ balanceResponse' = NoResponse
    /\ publicKeyResponse' = NoResponse
    /\ thrown' = <<>>
    /\ result' = NoResult
    /\ returns' = 0
    /\ UNCHANGED <<config, payload, requirements, settlerVars>>

ReplayNext ==
    \/ Next
    \/ NewCall
    \/ SettleNext

ReplaySpec == ReplayInit /\ [][ReplayNext]_vars

(***************************************************************************)
(* Properties.                                                             *)
(***************************************************************************)
Done == pc = "done"

\* the errors the signature check recovers from by taking its fallback path
PrimaryPathErrors == {"typed_hash", "signature_fields", "is_valid_signature"}

\* C1: verify never throws.  No error leaves the call; a call that has not
\* returned can take a step; a call that is over has returned exactly one
\* response, valid with a null reason or invalid with a reason; an error that
\* left the try block has become the invalid response carrying its message;
\* and a valid response is returned only if every error raised on the way was
\* one the signature check recovered from by its fallback path.
C1_VerifyNeverThrows ==
    /\ pc # "thrown"
    /\ ~Done => (ENABLED Next /\ returns = 0 /\ result = NoResult)
    /\ Done =>
         /\ returns = 1
         /\ result.returned
         /\ result.isValid => result.invalidReason = NullReason
         /\ ~result.isValid => result.invalidReason # NullReason
         /\ thrown # <<>> => result = Invalid(thrown)
         /\ result.isValid => \A i \in 1..Len(errors) : errors[i] \in PrimaryPathErrors

\* C1 witness: a non-numeric amount made BigInt throw at line 74 and the call
\* returned the invalid response with the error's message
C1_Witness ==
    /\ Done
    /\ ~BigInt(payload.amount).ok
    /\ errors = <<"amount">>
    /\ result = Invalid(BigIntErrorMessage(payload.amount))

(***************************************************************************)
(* The eight conditions of section 4.1, stated on the inputs and on what   *)
(* the chain answered, not on the path the call took.                      *)
(***************************************************************************)
Passes1 ==
    /\ isValidStarknetAddress(payload.from)
    /\ isValidStarknetAddress(payload.to)
    /\ isValidStarknetAddress(payload.token)

Passes2 == toLowerCase(payload.to) = toLowerCase(requirements.payTo)

Passes3 == toLowerCase(payload.token) = toLowerCase(requirements.asset)

Passes4 ==
    /\ BigInt(payload.amount).ok
    /\ 0 < BigInt(payload.amount).val
    /\ BigInt(payload.amount).val <= BigInt(requirements.maxAmountRequired).val

Passes5 ==
    /\ now < payload.deadline
    /\ payload.deadline <= now + requirements.maxTimeoutSeconds

Passes6 == sigValid = "true"

Passes7 == BigInt(payload.nonce).ok /\ BigInt(payload.nonce).val >= 0

Passes8 ==
    /\ balanceResponse.got
    /\ ~balanceResponse.err
    /\ Len(balanceResponse.vals) >= 2
    /\ \/ balanceResponse.vals[2] > 0
       \/ balanceResponse.vals[1] >= BigInt(payload.amount).val

Passes(k) ==
    CASE k = 1 -> Passes1
      [] k = 2 -> Passes2
      [] k = 3 -> Passes3
      [] k = 4 -> Passes4
      [] k = 5 -> Passes5
      [] k = 6 -> Passes6
      [] k = 7 -> Passes7
      [] k = 8 -> Passes8

\* the check a reason belongs to
ReasonCheck(reason) ==
    CASE reason \in {<<"Invalid sender address">>, <<"Invalid recipient address">>,
                     <<"Invalid token address">>} -> 1
      [] reason = <<"Recipient address does not match requirements">> -> 2
      [] reason = <<"Token address does not match requirements">> -> 3
      [] reason = <<"Amount must be greater than zero">> -> 4
      [] Len(reason) > 1 /\ reason[1] \in {"Amount ", "Cannot convert "} -> 4
      [] reason \in {<<"Payment deadline has expired">>,
                     <<"Payment deadline exceeds maximum timeout">>} -> 5
      [] reason = <<"Invalid signature">> -> 6
      [] reason = <<"Invalid or already used nonce">> -> 7
      [] reason = <<"Insufficient token balance">> -> 8
      [] OTHER -> 0

\* the check that issues a chain query
QueryCheck(entrypoint) ==
    CASE entrypoint \in {"is_valid_signature", "get_public_key"} -> 6
      [] entrypoint = "balanceOf" -> 8
      [] OTHER -> 0

\* C2: the checks run in the order 1..8 and stop at the first failure.  The
\* checks begun are always 1, 2, ..., n in that order; a chain query is only
\* issued by a check that has begun (signature queries by check 6, the
\* balance query by check 8); a call that returned takes no further step;
\* and an invalid response carries the reason of check k where k is the last
\* check begun, the payload fails check k and passes every check before it.
C2_FixedOrderFirstFailure ==
    /\ \A i \in 1..Len(checks) : checks[i] = i
    /\ \A i \in 1..Len(queries) :
          /\ queries[i][1] = QueryCheck(queries[i][2])
          /\ queries[i][1] <= Len(checks)
    /\ Done => ~ENABLED Next
    /\ (Done /\ ~result.isValid) =>
          LET k == ReasonCheck(result.invalidReason)
          IN  /\ k \in 1..8
              /\ Len(checks) = k
              /\ ~Passes(k)
              /\ \A j \in 1..(k - 1) : Passes(j)
              /\ k < 8 => balanceResponse = NoResponse
              /\ k < 6 => queries = <<>>

\* C2 witness: the signature was accepted by the account contract, the nonce
\* check failed, and the call stopped before the balance query
C2_Witness ==
    /\ Done
    /\ result = Invalid(<<"Invalid or already used nonce">>)
    /\ checks = <<1, 2, 3, 4, 5, 6, 7>>
    /\ queries = <<(<<6, "is_valid_signature">>)>>

\* the payer's signature over the typed message of the payload as it is, under
\* the chain id the verifier hashes with
CorrectlySigned ==
    payload.signature =
        Sign(PublicKeyOf(payload.from), computeTypedPaymentMessageHash(payload))

\* C3: when payload.to differs from requirements.payTo, compared without
\* regard to case, the call never issues a signature query (nor any other),
\* never runs the signature check, and returns invalid, whatever the
\* signature is.
C3_RecipientMismatchShortCircuits ==
    toLowerCase(payload.to) # toLowerCase(requirements.payTo) =>
        /\ queries = <<>>
        /\ sigValid = "unset"
        /\ \A i \in 1..Len(checks) : checks[i] < 6
        /\ pc \notin {"sig_primary", "sig_primary_wait", "sig_fallback",
                      "sig_fallback_wait"}
        /\ Done => ~result.isValid

\* C3 witness: a payload that is correctly signed and passes checks 1, 3 and 4
\* was rejected for its recipient alone
C3_Witness ==
    /\ Done
    /\ CorrectlySigned
    /\ Passes1 /\ Passes3 /\ Passes4 /\ Passes7
    /\ toLowerCase(payload.to) # toLowerCase(requirements.payTo)
    /\ result = Invalid(<<"Recipient address does not match requirements">>)
    /\ checks = <<1, 2>>

\* the amount as a number, and the two ways it can be out of range
AmountValue == BigInt(payload.amount).val
MaxAmountValue == BigInt(requirements.maxAmountRequired).val
AmountOutOfRange ==
    BigInt(payload.amount).ok /\ (AmountValue <= 0 \/ AmountValue > MaxAmountValue)

\* "Amount <amount> exceeds maximum <max>"
ExceedsReason ==
    <<"Amount ">> \o BigIntToString(AmountValue) \o <<" exceeds maximum ">>
    \o BigIntToString(MaxAmountValue)

AmountRejected ==
    /\ ~result.isValid
    /\ result.invalidReason \in {<<"Amount must be greater than zero">>, ExceedsReason}
    /\ AmountValue > MaxAmountValue => result.invalidReason = ExceedsReason

\* C4 as stated: every payload whose amount is <= 0 or above the maximum is
\* rejected with an amount reason.
C4_Original == (Done /\ AmountOutOfRange) => AmountRejected

\* C4 as amended: every payload that passes checks 1 to 3 (well-formed
\* addresses, matching recipient and token) and whose amount is <= 0 or above
\* the maximum is rejected with an amount reason, "Amount <amount> exceeds
\* maximum <max>" when it is above the maximum, before the signature is
\* looked at.
C4_AmountOutOfRangeRejected ==
    (Done /\ Passes1 /\ Passes2 /\ Passes3 /\ AmountOutOfRange) =>
        /\ AmountRejected
        /\ sigValid = "unset"
        /\ queries = <<>>

\* C4 witness: a correctly signed payload asking one unit more than the
\* maximum was rejected with the text naming both numbers
C4_Witness ==
    /\ Done
    /\ CorrectlySigned
    /\ AmountValue = MaxAmt + 1
    /\ result = Invalid(<<"Amount ">> \o BigIntToString(MaxAmt + 1)
                        \o <<" exceeds maximum ">> \o BigIntToString(MaxAmt))

ExpiredReason == <<"Payment deadline has expired">>
TimeoutReason == <<"Payment deadline exceeds maximum timeout">>

\* C5 as stated: every payload whose deadline is not after the verification
\* time is rejected as expired.
C5_Original == (Done /\ payload.deadline <= now) => result = Invalid(ExpiredReason)

\* C5 as amended: every payload that passes checks 1 to 4 and whose deadline
\* is not after the verification time is rejected as expired, before the
\* signature is looked at.
C5_ExpiredRejected ==
    (Done /\ Passes1 /\ Passes2 /\ Passes3 /\ Passes4 /\ payload.deadline <= now) =>
        /\ result = Invalid(ExpiredReason)
        /\ sigValid = "unset"
        /\ queries = <<>>

\* C5 witness: a correctly signed payload whose deadline is the very second of
\* the verification was rejected as expired
C5_Witness ==
    /\ Done
    /\ CorrectlySigned
    /\ payload.deadline = now
    /\ result = Invalid(ExpiredReason)

\* C6 as stated: every payload whose deadline is more than maxTimeoutSeconds
\* after the verification time is rejected for its timeout, and none whose
\* deadline is exactly maxTimeoutSeconds after it is.
C6_Original ==
    /\ (Done /\ payload.deadline - now > requirements.maxTimeoutSeconds) =>
          result = Invalid(TimeoutReason)
    /\ (Done /\ payload.deadline - now = requirements.maxTimeoutSeconds) =>
          result # Invalid(TimeoutReason)

\* C6 as amended: every payload that passes checks 1 to 4 and whose deadline
\* is in the future but more than maxTimeoutSeconds after the verification
\* time is rejected for its timeout before the signature is looked at; a
\* payload that passes checks 1 to 4 with a deadline exactly
\* maxTimeoutSeconds after it goes on to the signature check.
C6_TimeoutExceededRejected ==
    /\ (Done /\ Passes1 /\ Passes2 /\ Passes3 /\ Passes4 /\ now < payload.deadline
        /\ payload.deadline - now > requirements.maxTimeoutSeconds) =>
          /\ result = Invalid(TimeoutReason)
          /\ sigValid = "unset"
          /\ queries = <<>>
    /\ (Done /\ payload.deadline - now = requirements.maxTimeoutSeconds) =>
          /\ result # Invalid(TimeoutReason)
          /\ (Passes1 /\ Passes2 /\ Passes3 /\ Passes4) =>
                (Len(checks) >= 6 /\ sigValid # "unset")

\* C6 witness: a correctly signed payload with a future deadline one second
\* past the allowed window was rejected for its timeout
C6_Witness ==
    /\ Done
    /\ CorrectlySigned
    /\ payload.deadline = now + requirements.maxTimeoutSeconds + 1
    /\ result = Invalid(TimeoutReason)

\* C7: a call returns valid if and only if all eight conditions hold: the
\* three addresses are well-formed; to equals payTo and token equals asset
\* without regard to case; 0 < amount <= maxAmountRequired; now < deadline <=
\* now + maxTimeoutSeconds; the signature check returned valid; the nonce is
\* a non-negative number; and the balance query answered a u256 that is >=
\* amount.  No response is valid before the call is over.
C7_ValidIffAllConditions ==
    /\ ~Done => ~result.isValid
    /\ Done => (result.isValid <=> \A k \in 1..8 : Passes(k))

\* C7 witness (scenario 1 of the specification): amount equal to the maximum,
\* deadline within the window, the payer's signature accepted by the account
\* contract, balance equal to the amount: valid
C7_Witness ==
    /\ Done
    /\ result = Valid
    /\ AmountValue = MaxAmountValue
    /\ CorrectlySigned
    /\ sigPath = "primary"
    /\ balanceResponse = QueryResult(<<AmountValue, 0>>)
    /\ checks = <<1, 2, 3, 4, 5, 6, 7, 8>>

\* the network the verifier is configured for, and its chain id
VerifierNetwork == IF config.network = UNDEFINED THEN STARKNET_SEPOLIA ELSE config.network
VerifierChainId == IF VerifierNetwork = STARKNET_MAINNET THEN SN_MAIN ELSE SN_SEPOLIA

\* the payer signed the typed message of exactly this payload for chain c
SignedFor(c) ==
    payload.signature = Sign(PublicKeyOf(payload.from), TypedMessageHash(payload, c))

\* the payer signed the typed message (for the test chain) of a payload that
\* differed from this one in field f: f was altered after signing
SignedBeforeAltering(f) ==
    payload.signature =
        Sign(PublicKeyOf(payload.from), TypedMessageHash(Altered(payload, f), SN_SEPOLIA))

\* the account contract answered is_valid_signature with its verdict
PrimaryAnswered ==
    primaryResponse.got /\ ~primaryResponse.err /\ Len(primaryResponse.vals) >= 1

C9_ChainIdFromRequirements ==
    messageHash # NoDigest =>
        messageHash.chainId =
            (IF requirements.network = STARKNET_MAINNET THEN SN_MAIN ELSE SN_SEPOLIA)

\* the fallback path has been entered
FallbackUsed ==
    \/ pc \in {"sig_fallback", "sig_fallback_wait"}
    \/ sigPath = "fallback"
    \/ \E i \in 1..Len(queries) : queries[i][2] = "get_public_key"

\* C10 as stated: the fallback path is entered only if the is_valid_signature
\* query itself errored; when the query returned a result the result alone
\* decides (a non-zero first value is valid, zero or nothing invalid) and the
\* fallback is not consulted.
C10_FallbackOnlyOnQueryError ==
    /\ FallbackUsed => primaryResponse = QueryError
    /\ (primaryResponse.got /\ ~primaryResponse.err) =>
          /\ ~FallbackUsed
          /\ sigPath = "primary"
          /\ sigValid = (IF Len(primaryResponse.vals) >= 1 /\ primaryResponse.vals[1] # 0
                         THEN "true" ELSE "false")

(***************************************************************************)
(* The signature check's fallback path, section 4.1 step 6.                *)
(***************************************************************************)
\* the fallback path ran and failed: the legacy hash threw, the public key
\* could not be fetched (the query failed or answered nothing), or reading
\* the signature threw
FallbackFailed ==
    /\ sigPath = "fallback"
    /\ \/ \E i \in 2..Len(errors) :
             errors[i] \in {"legacy_hash", "get_public_key", "signature_fields"}
       \/ /\ publicKeyResponse.got
          /\ publicKeyResponse.err \/ Len(publicKeyResponse.vals) = 0

\* C11: the signature check fails closed.  When the primary path has erred
\* and the fallback path errs too, or cannot fetch the public key, the
\* signature counts as invalid and verify returns the invalid response with
\* the signature reason; no error of the signature check reaches the catch of
\* verify.
C11_SignatureFailsClosed ==
    /\ FallbackFailed =>
         /\ \E i \in 1..Len(errors) : errors[i] \in PrimaryPathErrors
         /\ sigValid = "false"
         /\ Done
         /\ result = Invalid(<<"Invalid signature">>)
    /\ (\E i \in 1..Len(checks) : checks[i] = 6) => thrown = <<>> /\ pc # "catch"

\* C11 witness: the validation query failed, then the public key query failed
C11_Witness ==
    /\ Done
    /\ errors = <<"is_valid_signature", "get_public_key">>
    /\ publicKeyResponse = QueryError
    /\ result = Invalid(<<"Invalid signature">>)

(***************************************************************************)
(* Settlement, section 4.2, under SettleSpec.                              *)
(***************************************************************************)
SettleDone(c) == callPc[c] = "done"

\* the chain interactions of call c, in order
ChainCallsOf(c) == SelectSeq(chainCalls, LAMBDA call : call.call = c)

SubmissionsOf(c) == SelectSeq(ChainCallsOf(c), LAMBDA call : call.kind = "execute")

WaitsOf(c) == SelectSeq(ChainCallsOf(c), LAMBDA call : call.kind = "waitForTransaction")

NotInitialized == ErrorOf(<<"Facilitator account not initialized">>)

\* C12: with no facilitator identity configured (the private key or the
\* account address is missing) the settler holds no account, and every settle
\* call fails at its first step with the configuration error, having
\* attempted no chain interaction: no submission and no receipt query.
C12_NoIdentityNoChainInteraction ==
    ~IdentityConfigured(settlerConfig) =>
       /\ account = NullAccount
       /\ chainCalls = <<>>
       /\ \A c \in Calls :
             /\ callPc[c] \in {"start", "done"}
             /\ SettleDone(c) =>
                  /\ settleReturns[c] = 1
                  /\ settleError[c] = <<NotInitialized>>
                  /\ settleResult[c] = Failed(NotInitialized, requirements.network)

\* C12 witness: a private key but no account address, and both calls over
C12_Witness ==
    /\ settlerConfig = [privateKey |-> KEY, accountAddress |-> UNDEFINED]
    /\ \A c \in Calls : SettleDone(c) /\ ~settleResult[c].success
    /\ chainCalls = <<>>

\* the amount names a number the transfer call can carry
AmountIsUnsigned == BigInt(payload.amount).ok /\ BigInt(payload.amount).val >= 0

\* call c submitted and the submission failed: account.execute rejected, or
\* its response named no transaction
SubmissionFailed(c) ==
    /\ SettleDone(c)
    /\ Len(SubmissionsOf(c)) >= 1
    /\ txHash[c] = NULL

\* the part of C13 every call meets: at most one submission, which is the
\* transfer of the payload, and a failed submission ends the call
SubmissionIsSingleAndTerminal(c) ==
    /\ Len(SubmissionsOf(c)) <= 1
    /\ \A i \in 1..Len(SubmissionsOf(c)) :
          SubmissionsOf(c)[i] = TransferCall(c, payload)
    /\ SubmissionFailed(c) =>
         /\ settleReturns[c] = 1
         /\ ~settleResult[c].success
         /\ WaitsOf(c) = <<>>

\* C13 as stated: every settle call on a settler with a configured identity,
\* one its account was built from, has, when it is over, made exactly one
\* submission, the transfer of amount
\* of token from payload.from to payload.to; never more than one; and a
\* failed submission ends the call with Failed, without a wait for
\* confirmation.
C13_Original ==
    \A c \in Calls :
       /\ SubmissionIsSingleAndTerminal(c)
       /\ (IdentityConfigured(settlerConfig) /\ account.initialized /\ SettleDone(c)) =>
             Len(SubmissionsOf(c)) = 1

\* C13 amended: every settle call makes at most one submission, the transfer
\* of the payload, and exactly one when the settler holds its account and the
\* amount is an unsigned integer numeral; a failed submission ends the call
\* with Failed, returned once, without a wait for confirmation.
C13_AtMostOneSubmission ==
    \A c \in Calls :
       /\ SubmissionIsSingleAndTerminal(c)
       /\ (account.initialized /\ AmountIsUnsigned /\ ~(TRUE \in CalldataThrows(payload))
           /\ SettleDone(c)) =>
             Len(SubmissionsOf(c)) = 1
       /\ (~account.initialized \/ ~BigInt(payload.amount).ok) =>
             Len(SubmissionsOf(c)) = 0

\* C13 witness: call 1 submitted, account.execute rejected, and the call
\* returned Failed without waiting; call 2 submitted and was confirmed
C13_Witness ==
    /\ SubmissionFailed(1)
    /\ settleError[1] = <<ErrorOf(<<"execute failed">>)>>
    /\ settleResult[1] = Failed(ErrorOf(<<"execute failed">>), requirements.network)
    /\ SettleDone(2) /\ settleResult[2].success
    /\ Len(Submissions) = 2

\* what the chain reported to call c's wait for confirmation
ReportedStatus(c) == waitOutcome[c].receipt.execution_status

\* lines 505-510: the error of a reverted transaction
RevertedError(receipt) ==
    ErrorOf(<<"Transaction reverted: ",
              IF Falsy(receipt.revert_reason) THEN "Unknown reason"
              ELSE receipt.revert_reason[1]>>)

\* C14: when the chain reports the success status for the submitted
\* transaction h, settle returns Settled with txHash = h and networkId =
\* requirements.network; and settle returns Settled only for a transaction
\* whose success status was observed.
C14_SettledOnlyOnObservedSuccess ==
    \A c \in Calls :
       /\ (SettleDone(c) /\ ReportedStatus(c) = "SUCCEEDED") =>
             settleResult[c] = Settled(txHash[c], requirements.network)
       /\ (SettleDone(c) /\ settleResult[c].success) =>
             /\ txHash[c] # NULL
             /\ ReportedStatus(c) = "SUCCEEDED"

\* C15: when the submitted transaction is reported reverted, settle returns
\* Failed with "Transaction reverted: <reason>", or with the unknown-reason
\* text when the chain gives no reason.
C15_RevertedReturnsFailed ==
    \A c \in Calls :
       (SettleDone(c) /\ ReportedStatus(c) = "REVERTED") =>
          settleResult[c] = Failed(RevertedError(waitOutcome[c].receipt),
                                   requirements.network)

\* line 524: the error of a wait that exhausted its budget
ConfirmationTimeout == ErrorOf(<<"Transaction confirmation timeout">>)

\* C16: a settle call does not wait for confirmation beyond the 60-second
\* budget: once the budget has elapsed without a terminal status, the call
\* has stopped waiting and has returned Failed with the confirmation-timeout
\* error.
C16_WaitEndsWithBudget ==
    \A c \in Calls :
       waited[c] = "beyond" =>
          /\ SettleDone(c)
          /\ settleResult[c] = Failed(ConfirmationTimeout, requirements.network)

\* C17: no exception crosses the settle boundary.  A call is always at one
\* of its awaits or over, never left by an error; a call that is over has
\* returned exactly one SettleResponse with networkId = requirements.network:
\* Settled with no error, or, for every error raised by the identity check,
\* the submission or the confirmation, Failed with the text of that error.
C17_SettleNeverThrows ==
    \A c \in Calls :
       /\ callPc[c] \in {"start", "execute_wait", "confirm_wait", "done"}
       /\ ~SettleDone(c) =>
            /\ settleReturns[c] = 0
            /\ settleResult[c] = NoSettleResult
            /\ settleError[c] = <<>>
       /\ SettleDone(c) =>
            /\ settleReturns[c] = 1
            /\ settleResult[c].returned
            /\ settleResult[c].networkId = requirements.network
            /\ IF settleResult[c].success
               THEN settleError[c] = <<>> /\ settleResult[c].error = NULL
               ELSE /\ settleError[c] # <<>>
                    /\ settleResult[c].error # NULL
                    /\ settleResult[c] = Failed(settleError[c][1], requirements.network)

\* C17 witness: the wait for confirmation of call 1 rejected with a value that
\* is no Error, and the call returned Failed with the default text
C17_Witness ==
    /\ SettleDone(1)
    /\ txHash[1] # NULL
    /\ waitOutcome[1].ended = "rejected"
    /\ settleError[1] = <<NonError>>
    /\ settleResult[1].error = <<"Settlement failed">>
    /\ settleResult[1].networkId = requirements.network

\* call c can take its next step whatever the other call is doing
CanStep(c) ==
    \/ ENABLED SettleStart(c)
    \/ ENABLED ExecuteReturn(c)
    \/ ENABLED WaitReturn(c)

\* C18: settlements are not de-duplicated.  Each of the two settle calls for
\* the same payload, run one after the other or interleaved, submits its own
\* transfer (two submissions in all, of the same transfer), and a call that
\* is not over can always take its step: it waits for nothing the other call
\* does.
C18_NoDeduplication ==
    /\ \A c \in Calls : ~SettleDone(c) => CanStep(c)
    /\ (account.initialized /\ AmountIsUnsigned /\ ~(TRUE \in CalldataThrows(payload))) =>
          /\ \A c \in Calls : callPc[c] # "start" =>
                SubmissionsOf(c) = <<TransferCall(c, payload)>>
          /\ (\A c \in Calls : callPc[c] # "start") =>
                /\ Len(Submissions) = 2
                /\ Submissions[1].args = Submissions[2].args
                /\ Submissions[1].call # Submissions[2].call

\* C18 witness: the two calls interleaved, both submitted before either was
\* confirmed, and both returned Settled, each with its own transaction
C18_Witness ==
    /\ Len(chainCalls) = 4
    /\ chainCalls[1].kind = "execute" /\ chainCalls[2].kind = "execute"
    /\ \A c \in Calls : SettleDone(c) /\ settleResult[c].success
    /\ settleResult[1].txHash # settleResult[2].txHash

(***************************************************************************)
(* The nonce check, section 4.1 step 7, under ReplaySpec.                  *)
(***************************************************************************)
NonceReason == <<"Invalid or already used nonce">>

\* check 7 has run in the current verify call
NonceCheckRan == \E i \in 1..Len(checks) : checks[i] = 7

\* check 7 has run and let the call go on to check 8
NonceAccepted == NonceCheckRan /\ ~(Done /\ result = Invalid(NonceReason))

\* the payload has been found valid by an earlier verify call, or settled
AlreadyVerified == \E i \in 1..Len(history) : history[i] = Valid
AlreadySettled == SettleDone(1) /\ settleResult[1].success

\* C21: the nonce check is a stub.  It issues no chain query; of the integer
\* nonces it accepts the non-negative ones and rejects the negative ones,
\* whatever verify and settle calls came before; so a payload that was
\* verified or settled before passes the nonce check again, and verify
\* returns Valid for it whenever the other seven checks pass.
C21_NonceCheckIsStub ==
    /\ \A i \in 1..Len(queries) : queries[i][1] # 7
    /\ (NonceCheckRan /\ BigInt(payload.nonce).ok) =>
          (NonceAccepted <=> BigInt(payload.nonce).val >= 0)
    /\ (NonceCheckRan /\ Passes7 /\ (AlreadyVerified \/ AlreadySettled)) => NonceAccepted
    /\ (Done /\ Passes1 /\ Passes2 /\ Passes3 /\ Passes4 /\ Passes5 /\ Passes6
        /\ Passes7 /\ Passes8) => result = Valid

\* C21 witness: the payload was found valid, then settled, and a second
\* verify call on it has passed the nonce check and returned Valid
C21_Witness ==
    /\ history = <<Valid>>
    /\ AlreadySettled
    /\ Done
    /\ NonceAccepted
    /\ result = Valid

====
